---- MODULE Spec2Model ----
(***************************************************************************)
(* Model of sonarqube/resource_sonarqube_webhook.go: the Terraform         *)
(* resource that manages one SonarQube webhook through the REST endpoints  *)
(* api/webhooks/{create,list,update,delete}.                               *)
(*                                                                         *)
(* Webhook keys are the numbers 1..NumKeys, 0 being the empty key (an      *)
(* empty identifier, an unset key field).  The handlers compare keys and   *)
(* nothing else: names, urls, secrets and projects are only copied, or     *)
(* tested for being empty, so each is drawn from the empty string and a    *)
(* few values.  Names have two values, so that a rename and a normalised   *)
(* name show; the url, which every handler treats line for line like the   *)
(* name, has one.                                                          *)
(* The resource data object d is a record of the identifier (d.Id()) and   *)
(* the schema fields.  The SonarQube server is a map from webhook keys to  *)
(* webhooks; every handler is one action that performs its HTTP            *)
(* round-trips in order, the server answering each of them.                *)
(***************************************************************************)
EXTENDS Integers, Sequences, FiniteSets

\* ---------------------------------------------------------------- bounds
\* The number of webhooks the server ever creates.
NumKeys == 2

\* ------------------------------------------------------------- constants
EmptyKey == 0
EmptyString == ""
StatusOK == 200
StatusNoContent == 204

Keys == 1..NumKeys
Names == {"a", "b"}
Urls == {"u"}
Secrets == {EmptyString, "s"}
Projects == {EmptyString, "p"}
\* 0 stands for a transport failure (no HTTP status at all), 500 for any
\* status by which the server refuses or fails the request.
Statuses == {0, StatusOK, StatusNoContent, 500}

VARIABLES
    d,          \* the schema.ResourceData of the resource
    pending,    \* what the engine holds d for: "none", a planned "create"
                \* or "update", or "tainted" after a Create that failed
                \* with the identifier set
    server,     \* the webhooks held by the SonarQube server, by key
    nextKey,    \* the key the server assigns to the next created webhook
    op,         \* history: the handler that returned last
    err,        \* history: whether that handler returned an error
    calls,      \* history: the remote calls that handler issued, in order
    readId,     \* history: d.Id() when that handler's Read was entered
    lastList,   \* history: the webhooks of the list response it decoded
    found,      \* history: whether its Read found the identifier in them
    request     \* history: what the last Create or Update sent, and its key

vars == <<d, pending, server, nextKey, op, err, calls, readId, lastList,
          found, request>>

\* ------------------------------------------------------------ data model
Webhook(k, n, u, s) == [key |-> k, name |-> n, url |-> u, secret |-> s]

NoResource ==
    [id |-> EmptyKey, key |-> EmptyKey, name |-> EmptyString,
     url |-> EmptyString, secret |-> EmptyString, project |-> EmptyString]

NoWebhook ==
    [present |-> FALSE, name |-> EmptyString, url |-> EmptyString,
     project |-> EmptyString]

NoResponse ==
    [status |-> 0, decodes |-> FALSE, key |-> EmptyKey, webhooks |-> <<>>]

NoRequest ==
    [by |-> "none", key |-> EmptyKey, name |-> EmptyString,
     url |-> EmptyString, secret |-> EmptyString]

\* The keys of the webhooks in a list body.
ListKeys(hooks) == {hooks[i].key : i \in 1..Len(hooks)}

\* --------------------------------------------------- the HTTP collaborator
\* httpRequestHelper performs the call and validates the status code: it
\* returns the response when the status is the expected one and an error
\* otherwise (a transport failure has no status).  TRUE means err == nil.
httpRequestHelper(resp, expectedResponseCode) ==
    resp.status = expectedResponseCode

\* One entry of a handler's call log.
Call(endpoint, resp) ==
    [ep |-> endpoint, status |-> resp.status, decodes |-> resp.decodes,
     key |-> resp.key]

\* What a handler hands back: the resource data, the error flag, the calls
\* it issued, and what its Read saw (the identifier on entry, the decoded
\* list, whether the scan found the webhook).
Result(dd, e, cs, ck, rid, hooks, f) ==
    [d |-> dd, err |-> e, calls |-> cs, createKey |-> ck, readId |-> rid,
     list |-> hooks, found |-> f]

\* ----------------------------------------------------------- the queries
\* The query strings the handlers build.  GetOk reports an empty string as
\* not set, so an empty project or secret is a parameter left out.
CreateQuery(d0) ==
    [name |-> d0.name, url |-> d0.url, project |-> d0.project, secret |-> d0.secret]

\* Read forgetting the project scope of its list call.
ListQueryWithoutProject(d0) == [project |-> EmptyString]

ListQuery(d0) == [project |-> d0.project]

UpdateQuery(d0) ==
    [webhook |-> d0.id, name |-> d0.name, url |-> d0.url,
     project |-> d0.project, secret |-> d0.secret]

DeleteQuery(d0) == [webhook |-> d0.id]

\* ------------------------------------------------------------------- Read
\* The loop of Read: the index of the first webhook whose key equals the
\* identifier, 0 when there is none.
RECURSIVE FindWebhook(_, _, _)
FindWebhook(id, hooks, i) ==
    IF i > Len(hooks) THEN 0
    ELSE IF id = hooks[i].key THEN i
    ELSE FindWebhook(id, hooks, i + 1)

\* Read without the final SetId(""): a webhook absent from the list keeps
\* its identifier.
ReadKeepsStaleId(d0, resp) ==
    IF ~httpRequestHelper(resp, StatusOK) \/ ~resp.decodes
    THEN Result(d0, TRUE, <<Call("list", resp)>>, EmptyKey, d0.id, <<>>, FALSE)
    ELSE LET i == FindWebhook(d0.id, resp.webhooks, 1) IN
         IF i # 0
         THEN LET value == resp.webhooks[i] IN
              Result([d0 EXCEPT !.id = value.key, !.key = value.key,
                                !.name = value.name, !.url = value.url,
                                !.secret = value.secret],
                     FALSE, <<Call("list", resp)>>, EmptyKey, d0.id,
                     resp.webhooks, TRUE)
         ELSE Result(d0, FALSE, <<Call("list", resp)>>, EmptyKey, d0.id,
                     resp.webhooks, FALSE)

\* Read without d.Set("key", ...): the key field is never filled in.
ReadWithoutKey(d0, resp) ==
    IF ~httpRequestHelper(resp, StatusOK) \/ ~resp.decodes
    THEN Result(d0, TRUE, <<Call("list", resp)>>, EmptyKey, d0.id, <<>>, FALSE)
    ELSE LET i == FindWebhook(d0.id, resp.webhooks, 1) IN
         IF i # 0
         THEN LET value == resp.webhooks[i] IN
              Result([d0 EXCEPT !.id = value.key,
                                !.name = value.name, !.url = value.url,
                                !.secret = value.secret],
                     FALSE, <<Call("list", resp)>>, EmptyKey, d0.id,
                     resp.webhooks, TRUE)
         ELSE Result([d0 EXCEPT !.id = EmptyKey],
                     FALSE, <<Call("list", resp)>>, EmptyKey, d0.id,
                     resp.webhooks, FALSE)

resourceSonarqubeWebhookRead(d0, resp) ==
    IF ~httpRequestHelper(resp, StatusOK)
    THEN Result(d0, TRUE, <<Call("list", resp)>>, EmptyKey, d0.id, <<>>, FALSE)
    ELSE IF ~resp.decodes
    THEN Result(d0, TRUE, <<Call("list", resp)>>, EmptyKey, d0.id, <<>>, FALSE)
    ELSE LET i == FindWebhook(d0.id, resp.webhooks, 1) IN
         IF i # 0
         THEN LET value == resp.webhooks[i] IN
              Result([d0 EXCEPT !.id = value.key, !.key = value.key,
                                !.name = value.name, !.url = value.url,
                                !.secret = value.secret],
                     FALSE, <<Call("list", resp)>>, EmptyKey, d0.id,
                     resp.webhooks, TRUE)
         ELSE Result([d0 EXCEPT !.id = EmptyKey],
                     FALSE, <<Call("list", resp)>>, EmptyKey, d0.id,
                     resp.webhooks, FALSE)

\* ----------------------------------------------------------------- Create
\* resp1 answers the create call, resp2 the list call of the internal Read
\* (used only when the handler gets that far).
\* Create returning right after SetId, without the Read.
CreateWithoutRead(d0, resp1, resp2) ==
    IF ~httpRequestHelper(resp1, StatusOK) \/ ~resp1.decodes \/ resp1.key = EmptyKey
    THEN Result(d0, TRUE, <<Call("create", resp1)>>, EmptyKey, EmptyKey, <<>>, FALSE)
    ELSE Result([d0 EXCEPT !.id = resp1.key], FALSE, <<Call("create", resp1)>>,
                resp1.key, EmptyKey, <<>>, FALSE)

\* Create without the check for an empty key.
CreateWithoutKeyCheck(d0, resp1, resp2) ==
    IF ~httpRequestHelper(resp1, StatusOK) \/ ~resp1.decodes
    THEN Result(d0, TRUE, <<Call("create", resp1)>>, EmptyKey, EmptyKey, <<>>, FALSE)
    ELSE LET r == resourceSonarqubeWebhookRead([d0 EXCEPT !.id = resp1.key], resp2) IN
         Result(r.d, r.err, <<Call("create", resp1)>> \o r.calls, resp1.key,
                r.readId, r.list, r.found)

\* Create taking the identifier back when its Read fails.
CreateClearsIdOnReadError(d0, resp1, resp2) ==
    IF ~httpRequestHelper(resp1, StatusOK) \/ ~resp1.decodes \/ resp1.key = EmptyKey
    THEN Result(d0, TRUE, <<Call("create", resp1)>>, EmptyKey, EmptyKey, <<>>, FALSE)
    ELSE LET r == resourceSonarqubeWebhookRead([d0 EXCEPT !.id = resp1.key], resp2) IN
         Result(IF r.err THEN d0 ELSE r.d, r.err, <<Call("create", resp1)>> \o r.calls,
                resp1.key, r.readId, r.list, r.found)

resourceSonarqubeWebhookCreate(d0, resp1, resp2) ==
    IF ~httpRequestHelper(resp1, StatusOK)
    THEN Result(d0, TRUE, <<Call("create", resp1)>>, EmptyKey, EmptyKey, <<>>, FALSE)
    ELSE IF ~resp1.decodes
    THEN Result(d0, TRUE, <<Call("create", resp1)>>, EmptyKey, EmptyKey, <<>>, FALSE)
    ELSE IF resp1.key = EmptyKey
    THEN Result(d0, TRUE, <<Call("create", resp1)>>, EmptyKey, EmptyKey, <<>>, FALSE)
    ELSE LET r == resourceSonarqubeWebhookRead([d0 EXCEPT !.id = resp1.key], resp2) IN
         Result(r.d, r.err, <<Call("create", resp1)>> \o r.calls, resp1.key,
                r.readId, r.list, r.found)

\* ----------------------------------------------------------------- Update
\* Update returning right after the update call, without the Read.
UpdateWithoutRead(d0, resp1, resp2) ==
    IF ~httpRequestHelper(resp1, StatusNoContent)
    THEN Result(d0, TRUE, <<Call("update", resp1)>>, EmptyKey, EmptyKey, <<>>, FALSE)
    ELSE Result(d0, FALSE, <<Call("update", resp1)>>, EmptyKey, EmptyKey, <<>>, FALSE)

\* Update dropping the error of its Read.
UpdateIgnoresReadError(d0, resp1, resp2) ==
    IF ~httpRequestHelper(resp1, StatusNoContent)
    THEN Result(d0, TRUE, <<Call("update", resp1)>>, EmptyKey, EmptyKey, <<>>, FALSE)
    ELSE LET r == resourceSonarqubeWebhookRead(d0, resp2) IN
         Result(r.d, FALSE, <<Call("update", resp1)>> \o r.calls, EmptyKey,
                r.readId, r.list, r.found)

resourceSonarqubeWebhookUpdate(d0, resp1, resp2) ==
    IF ~httpRequestHelper(resp1, StatusNoContent)
    THEN Result(d0, TRUE, <<Call("update", resp1)>>, EmptyKey, EmptyKey, <<>>, FALSE)
    ELSE LET r == resourceSonarqubeWebhookRead(d0, resp2) IN
         Result(r.d, r.err, <<Call("update", resp1)>> \o r.calls, EmptyKey,
                r.readId, r.list, r.found)

\* ----------------------------------------------------------------- Delete
\* Delete clearing the identifier itself once the server has answered 204.
DeleteClearsId(d0, resp) ==
    IF ~httpRequestHelper(resp, StatusNoContent)
    THEN Result(d0, TRUE, <<Call("delete", resp)>>, EmptyKey, EmptyKey, <<>>, FALSE)
    ELSE Result([d0 EXCEPT !.id = EmptyKey], FALSE, <<Call("delete", resp)>>,
                EmptyKey, EmptyKey, <<>>, FALSE)

resourceSonarqubeWebhookDelete(d0, resp) ==
    IF ~httpRequestHelper(resp, StatusNoContent)
    THEN Result(d0, TRUE, <<Call("delete", resp)>>, EmptyKey, EmptyKey, <<>>, FALSE)
    ELSE Result(d0, FALSE, <<Call("delete", resp)>>, EmptyKey, EmptyKey, <<>>, FALSE)

\* ----------------------------------------------------------------- Import
\* Import dropping the error of its Read.
ImportIgnoresError(d0, resp) ==
    LET r == resourceSonarqubeWebhookRead(d0, resp) IN
    Result(r.d, FALSE, r.calls, EmptyKey, r.readId, r.list, r.found)

resourceSonarqubeWebhookImport(d0, resp) ==
    LET r == resourceSonarqubeWebhookRead(d0, resp) IN
    IF r.err
    THEN Result(r.d, TRUE, r.calls, EmptyKey, r.readId, r.list, r.found)
    ELSE Result(r.d, FALSE, r.calls, EmptyKey, r.readId, r.list, r.found)

\* ------------------------------------------------------ the SonarQube API
\* The status each endpoint answers when it has carried the request out.
Expected(ep) == IF ep \in {"create", "list"} THEN StatusOK ELSE StatusNoContent

\* What the server may store for a submitted name: the name as sent, or
\* its normal form.
Stored(v) == {v, "a"}

\* api/webhooks/create: the server stores a new webhook under key k.  The
\* secret is a write-only credential: the server keeps it out of this map,
\* and what a list response shows of it is the server's choice.
ServerCreate(srv, k, n, u, p) ==
    [srv EXCEPT ![k] = [present |-> TRUE, name |-> n, url |-> u, project |-> p]]

\* api/webhooks/update: name and url are replaced by value.
ServerUpdate(srv, k, n, u) ==
    [srv EXCEPT ![k] = [@ EXCEPT !.name = n, !.url = u]]

\* api/webhooks/delete.
ServerDelete(srv, k) == [srv EXCEPT ![k] = NoWebhook]

\* api/webhooks/list: the webhooks of the project scope p (the global ones
\* when no project is given), keys k..NumKeys in the order of creation,
\* each showing s for its secret.
RECURSIVE ListFrom(_, _, _, _)
ListFrom(srv, p, s, k) ==
    IF k > NumKeys THEN <<>>
    ELSE IF srv[k].present /\ srv[k].project = p
    THEN <<Webhook(k, srv[k].name, srv[k].url, s)>> \o ListFrom(srv, p, s, k + 1)
    ELSE ListFrom(srv, p, s, k + 1)

\* The response without a usable body: status st, nothing decoded.
Bare(st) == [NoResponse EXCEPT !.status = st]

\* Every answer the create call may get when the new webhook would get key
\* k: any status without a decodable body, or 200 with a body whose key is
\* k or is missing.
CreateResponses(k) ==
    {Bare(st) : st \in Statuses}
    \cup {[status |-> StatusOK, decodes |-> TRUE, key |-> kk, webhooks |-> <<>>]
          : kk \in {k, EmptyKey}}

\* Every answer the list call may get from a server in state srv.
ListResponses(srv, p) ==
    {Bare(st) : st \in Statuses}
    \cup {[status |-> StatusOK, decodes |-> TRUE, key |-> EmptyKey,
           webhooks |-> ListFrom(srv, p, s, 1)]
          : s \in Secrets}

\* The statuses the update or delete (endpoint ep) of webhook k may get:
\* the server carries it out only for a webhook it holds.
MutationStatuses(srv, ep, k) ==
    IF k \in Keys /\ srv[k].present THEN Statuses ELSE Statuses \ {Expected(ep)}

\* ---------------------------------------------------------------- actions
Init ==
    /\ d = NoResource
    /\ pending = "none"
    /\ server = [k \in Keys |-> NoWebhook]
    /\ nextKey = 1
    /\ op = "none"
    /\ err = FALSE
    /\ calls = <<>>
    /\ readId = EmptyKey
    /\ lastList = <<>>
    /\ found = FALSE
    /\ request = NoRequest

\* A handler has returned r.  The engine taints a resource whose Create
\* failed with the identifier set, and keeps it tainted until it is dropped.
Returned(name, r) ==
    /\ d' = r.d
    /\ pending' = IF r.d.id # EmptyKey /\ (pending = "tainted" \/ (name = "Create" /\ r.err))
                  THEN "tainted" ELSE "none"
    /\ op' = name
    /\ err' = r.err
    /\ calls' = r.calls
    /\ readId' = r.readId
    /\ lastList' = r.list
    /\ found' = r.found

\* Something other than a handler has acted: nothing of the last handler's
\* run is left to observe.
NoHandler(name) ==
    /\ op' = name
    /\ err' = FALSE
    /\ calls' = <<>>
    /\ readId' = EmptyKey
    /\ lastList' = <<>>
    /\ found' = FALSE

\* The engine prepares the data of a new resource from the configuration:
\* name and url are required, key, project and secret optional.
PlanCreate ==
    /\ pending = "none"
    /\ d = NoResource
    /\ \E k \in Keys \cup {EmptyKey}, n \in Names, u \in Urls,
          s \in Secrets, p \in Projects :
          d' = [id |-> EmptyKey, key |-> k, name |-> n, url |-> u,
                secret |-> s, project |-> p]
    /\ pending' = "create"
    /\ request' = NoRequest
    /\ NoHandler("PlanCreate")
    /\ UNCHANGED <<server, nextKey>>

\* The resource is in the engine's state: it has an identifier, and it is
\* not what a failed Import left behind.
Tracked == d.id # EmptyKey /\ ~(op = "Import" /\ err)

\* The engine prepares the data of an existing resource for an update:
\* project forces a new resource, so only name, url and secret change.
PlanUpdate ==
    /\ pending = "none"
    /\ Tracked
    /\ \E n \in Names, u \in Urls, s \in Secrets :
          d' = [d EXCEPT !.name = n, !.url = u, !.secret = s]
    /\ pending' = "update"
    /\ request' = NoRequest
    /\ NoHandler("PlanUpdate")
    /\ UNCHANGED <<server, nextKey>>

\* The engine drops the resource data (the resource was destroyed, was
\* found absent, or is removed from the state).
Forget ==
    /\ pending \in {"none", "tainted"}
    /\ d # NoResource
    /\ d' = NoResource
    /\ pending' = "none"
    /\ request' = NoRequest
    /\ NoHandler("Forget")
    /\ UNCHANGED <<server, nextKey>>

Create ==
    /\ pending = "create"
    /\ nextKey <= NumKeys
    /\ \E resp1 \in CreateResponses(nextKey) :
       LET q == CreateQuery(d)
           applied == resp1.status = Expected("create")
           reads == Len(resourceSonarqubeWebhookCreate(d, resp1, NoResponse).calls) = 2
       IN
       \E sn \in IF applied THEN Stored(q.name) ELSE {q.name},
          gone \in IF applied /\ reads THEN BOOLEAN ELSE {FALSE} :
          LET srv1 == IF applied
                      THEN ServerCreate(server, nextKey, sn, q.url, q.project)
                      ELSE server
              srv2 == IF gone THEN ServerDelete(srv1, nextKey) ELSE srv1
          IN
          \E resp2 \in IF reads
                       THEN ListResponses(srv2, ListQuery([d EXCEPT !.id = resp1.key]).project)
                       ELSE {NoResponse} :
             /\ Returned("Create", resourceSonarqubeWebhookCreate(d, resp1, resp2))
             /\ server' = srv2
             /\ nextKey' = IF applied THEN nextKey + 1 ELSE nextKey
             /\ request' = [by |-> "create", key |-> resp1.key, name |-> q.name,
                            url |-> q.url, secret |-> q.secret]

Read ==
    /\ pending \in {"none", "tainted"}
    /\ Tracked
    /\ \E resp \in ListResponses(server, ListQuery(d).project) :
          Returned("Read", resourceSonarqubeWebhookRead(d, resp))
    /\ UNCHANGED <<server, nextKey, request>>

Update ==
    /\ pending = "update"
    /\ LET q == UpdateQuery(d) IN
       \E st \in MutationStatuses(server, "update", q.webhook) :
       LET resp1 == Bare(st)
           applied == st = Expected("update")
           reads == Len(resourceSonarqubeWebhookUpdate(d, resp1, NoResponse).calls) = 2
       IN
       \E sn \in IF applied THEN Stored(q.name) ELSE {q.name},
          gone \in IF applied /\ reads THEN BOOLEAN ELSE {FALSE} :
          LET srv1 == IF applied
                      THEN ServerUpdate(server, q.webhook, sn, q.url)
                      ELSE server
              srv2 == IF gone THEN ServerDelete(srv1, q.webhook) ELSE srv1
          IN
          \E resp2 \in IF reads
                       THEN ListResponses(srv2, ListQuery(d).project)
                       ELSE {NoResponse} :
             /\ Returned("Update", resourceSonarqubeWebhookUpdate(d, resp1, resp2))
             /\ server' = srv2
             /\ request' = [by |-> "update", key |-> q.webhook, name |-> q.name,
                            url |-> q.url, secret |-> q.secret]
    /\ UNCHANGED nextKey

Delete ==
    /\ pending \in {"none", "tainted"}
    /\ Tracked
    /\ LET q == DeleteQuery(d) IN
       \E st \in MutationStatuses(server, "delete", q.webhook) :
          /\ Returned("Delete", resourceSonarqubeWebhookDelete(d, Bare(st)))
          /\ server' = IF st = Expected("delete")
                       THEN ServerDelete(server, q.webhook) ELSE server
    /\ request' = NoRequest
    /\ UNCHANGED nextKey

\* Import starts from a resource data that holds nothing but the
\* identifier supplied from outside.
Import ==
    /\ pending = "none"
    /\ d = NoResource
    /\ \E id \in Keys :
       LET d0 == [NoResource EXCEPT !.id = id] IN
       \E resp \in ListResponses(server, ListQuery(d0).project) :
          Returned("Import", resourceSonarqubeWebhookImport(d0, resp))
    /\ request' = NoRequest
    /\ UNCHANGED <<server, nextKey>>

\* Another client of the server deletes a webhook.
ExternalDelete ==
    /\ \E k \in Keys :
          /\ server[k].present
          /\ server' = ServerDelete(server, k)
    /\ NoHandler("ExternalDelete")
    /\ UNCHANGED <<d, pending, nextKey, request>>

\* Another client of the server renames a webhook.
ExternalUpdate ==
    /\ \E k \in Keys, n \in Names :
          /\ server[k].present
          /\ n # server[k].name
          /\ server' = ServerUpdate(server, k, n, server[k].url)
    /\ NoHandler("ExternalUpdate")
    /\ UNCHANGED <<d, pending, nextKey, request>>

Next ==
    \/ PlanCreate
    \/ PlanUpdate
    \/ Forget
    \/ Create
    \/ Read
    \/ Update
    \/ Delete
    \/ Import
    \/ ExternalDelete
    \/ ExternalUpdate

Spec == Init /\ [][Next]_vars

\* ------------------------------------------------------------- properties
Handlers == {"Create", "Read", "Update", "Delete", "Import"}

\* A call that failed: the status is not the expected one, or the body of
\* a create or list response does not decode.
Failed(c) ==
    \/ c.status # Expected(c.ep)
    \/ c.ep \in {"create", "list"} /\ ~c.decodes

\* The last handler's last call was a list call answered 200 with a body
\* that decoded.
ListDecoded ==
    /\ op \in Handlers
    /\ calls[Len(calls)].ep = "list"
    /\ ~Failed(calls[Len(calls)])

\* The entries of the decoded list whose key is k.
Matches(k) == {i \in 1..Len(lastList) : lastList[i].key = k}

\* C1: whenever a list response came with status 200 and decoded, the
\* handler returns no error; if no webhook of the response has the key
\* that was the identifier when Read was entered, the identifier is empty
\* on return; a non-empty identifier on return is a key of the response.
C1_ReadClearsAbsentIdentifier ==
    ListDecoded =>
        /\ ~err
        /\ (readId \notin ListKeys(lastList) => d.id = EmptyKey)
        /\ (d.id # EmptyKey => d.id \in ListKeys(lastList))

\* Read met a stale identifier: the list held other webhooks, not this one.
C1_Witness ==
    /\ op = "Read"
    /\ ListDecoded
    /\ lastList # <<>>
    /\ readId \notin ListKeys(lastList)
    /\ d.id = EmptyKey
    /\ ~err

\* The key Create or Import is about: the key of the create response, the
\* identifier supplied to Import.
SubjectKey == IF op = "Create" THEN request.key ELSE readId

\* C2 as stated: whenever Create or Import returns without error, the
\* identifier is non-empty, is the key of the create response (Create) or
\* the supplied identifier (Import), and the server holds that webhook.
C2_Original ==
    (op \in {"Create", "Import"} /\ ~err) =>
        /\ d.id # EmptyKey
        /\ d.id = SubjectKey
        /\ server[d.id].present

\* C2 amended: whenever Create or Import returns without error, either the
\* list response held the key and the identifier is that key, the key of a
\* webhook the server holds, or the list response did not hold the key and
\* the identifier is empty.
C2_CreateImportPresentOrAbsent ==
    (op \in {"Create", "Import"} /\ ~err) =>
        \/ /\ SubjectKey \in ListKeys(lastList)
           /\ d.id = SubjectKey
           /\ d.id # EmptyKey
           /\ server[d.id].present
        \/ /\ SubjectKey \notin ListKeys(lastList)
           /\ d.id = EmptyKey

\* Create returned without error and the resource is present.
C2_Witness ==
    /\ op = "Create"
    /\ ~err
    /\ d.id # EmptyKey
    /\ d.id = request.key
    /\ server[d.id].present

\* C3: when the create call returns 200 with a decodable body whose key is
\* empty, Create returns an error, sets no identifier and issues no list
\* call.
C3_EmptyKeyFailsCreate ==
    (/\ op = "Create"
     /\ calls[1].status = StatusOK
     /\ calls[1].decodes
     /\ calls[1].key = EmptyKey) =>
        /\ err
        /\ d.id = EmptyKey
        /\ Len(calls) = 1

\* A create response with an empty key was received and refused.
C3_Witness ==
    /\ op = "Create"
    /\ calls[1].ep = "create"
    /\ calls[1].status = StatusOK
    /\ calls[1].decodes
    /\ calls[1].key = EmptyKey
    /\ err

\* After an Update that returned no error, the fields are those of the
\* list response's webhook with the identifier.
FieldsFromList ==
    ~err => \A i \in Matches(readId) :
               /\ d.id = readId
               /\ d.name = lastList[i].name
               /\ d.url = lastList[i].url
               /\ d.secret = lastList[i].secret

\* C4 as stated: Update always issues exactly one list call after the
\* update call, and after a return without error the fields are those of
\* the list response.
C4_Original ==
    op = "Update" =>
        /\ Len(calls) = 2
        /\ calls[1].ep = "update"
        /\ calls[2].ep = "list"
        /\ FieldsFromList

\* C4 amended: an Update whose update call returns 204 issues exactly one
\* list call after it, an Update whose update call fails issues none; after
\* a return without error the name, url and secret are those of the list
\* response's webhook with that key, not those sent.
C4_UpdateReadsOnceOnSuccess ==
    op = "Update" =>
        /\ calls[1].ep = "update"
        /\ (calls[1].status = StatusNoContent =>
               Len(calls) = 2 /\ calls[2].ep = "list")
        /\ (calls[1].status # StatusNoContent => Len(calls) = 1)
        /\ FieldsFromList

\* Update returned without error with a name the server had normalised:
\* the resource holds the server's name, not the one sent.
C4_Witness ==
    /\ op = "Update"
    /\ ~err
    /\ found
    /\ request.by = "update"
    /\ d.name # request.name
    /\ d.name = server[d.id].name

\* C5 as stated: every Update either returns no error with a non-empty
\* identifier, or returns an error with the identifier, the fields and the
\* server's webhook as they were before.
C5_Original ==
    [][(pending = "update" /\ op' = "Update") =>
          \/ ~err' /\ d'.id # EmptyKey
          \/ err' /\ d' = d /\ server' = server]_vars

\* C5 amended: every Update either returns no error, the identifier being
\* non-empty exactly when the list response holds it, or returns an error
\* with the identifier and every field as they were before.
C5_UpdateErrorLeavesResource ==
    [][(pending = "update" /\ op' = "Update") =>
          \/ ~err' /\ (d'.id # EmptyKey <=> d.id \in ListKeys(lastList'))
          \/ err' /\ d' = d]_vars

\* Update failed in its Read, after the server had carried the update out.
C5_Witness ==
    /\ op = "Update"
    /\ err
    /\ Len(calls) = 2
    /\ calls[1].status = StatusNoContent
    /\ d.id # EmptyKey

\* C6: Delete returns no error exactly when the delete call returns 204;
\* either way it leaves the identifier and the fields alone and issues no
\* list call.
C6_DeleteOnly204 ==
    [][(pending \in {"none", "tainted"} /\ op' = "Delete") =>
          /\ Len(calls') = 1
          /\ calls'[1].ep = "delete"
          /\ (~err' <=> calls'[1].status = StatusNoContent)
          /\ d' = d]_vars

\* Delete returned without error: the server no longer holds the webhook,
\* the identifier is still set.
C6_Witness ==
    /\ op = "Delete"
    /\ ~err
    /\ calls[1].status = StatusNoContent
    /\ d.id # EmptyKey
    /\ ~server[d.id].present

\* C7: a handler issues one or two calls, the second being the list call
\* of the internal Read; a failed call is the last one and the handler
\* returns an error.
C7_ErrorsAbort ==
    op \in Handlers =>
        /\ Len(calls) \in {1, 2}
        /\ (Len(calls) = 2 =>
               calls[2].ep = "list" /\ calls[1].ep \in {"create", "update"})
        /\ \A i \in 1..Len(calls) :
               Failed(calls[i]) => err /\ i = Len(calls)

\* Create failed in the list call of its Read.
C7_Witness ==
    /\ op = "Create"
    /\ Len(calls) = 2
    /\ Failed(calls[2])
    /\ err

\* The server holds the webhook of the last Create with the name and url
\* as submitted, in the project scope of the resource.
StoredAsSent ==
    /\ request.by = "create"
    /\ request.key # EmptyKey
    /\ server[request.key].present
    /\ server[request.key].name = request.name
    /\ server[request.key].url = request.url
    /\ server[request.key].project = d.project

\* C8: after a Create, or a Read that follows it, returned without error,
\* if the server stores the submitted name and url unchanged under the
\* resource's project scope, the identifier is the key the server assigned
\* and name and url are those sent.
C8_CreateThenReadEchoes ==
    (op \in {"Create", "Read"} /\ ~err /\ StoredAsSent) =>
        /\ d.id = request.key
        /\ d.name = request.name
        /\ d.url = request.url

\* A Read after a Create in a project found the webhook as submitted.
C8_Witness ==
    /\ op = "Read"
    /\ ~err
    /\ StoredAsSent
    /\ d.project # EmptyString
    /\ d.name = "b"
    /\ d.id = request.key

\* C9 as stated: when a handler returns, the key field is unset or equal
\* to the identifier, and a non-empty key field is a key of the list
\* response just decoded.
C9_Original ==
    op \in Handlers =>
        /\ (d.key = EmptyKey \/ d.key = d.id)
        /\ (ListDecoded /\ d.key # EmptyKey => d.key \in ListKeys(lastList))

\* C9 amended: when a handler returns after its Read found the webhook,
\* the key field equals the identifier and is a key of the list response;
\* when the list response holds no such webhook, the identifier is cleared
\* and the key field keeps the value it had.
C9_KeyFollowsMatch ==
    [][op' \in Handlers =>
          /\ (found' =>
                 /\ d'.key = d'.id
                 /\ d'.id # EmptyKey
                 /\ d'.key \in ListKeys(lastList'))
          /\ (ListDecoded' /\ ~found' =>
                 /\ d'.id = EmptyKey
                 /\ d'.key = d.key)]_vars

\* Read found the webhook gone: the identifier is cleared, the key field
\* still names it.
C9_Witness ==
    /\ op = "Read"
    /\ ListDecoded
    /\ ~found
    /\ d.id = EmptyKey
    /\ d.key = readId
    /\ d.key # EmptyKey

\* C10: when the create call gave a key and the list call of the Read then
\* failed, Create returns an error with the identifier set to that key; in
\* every other error outcome of Create the identifier is empty.
C10_CreateErrorKeepsKey ==
    op = "Create" =>
        IF Len(calls) = 2 /\ Failed(calls[2])
        THEN /\ err
             /\ calls[1].key # EmptyKey
             /\ d.id = calls[1].key
        ELSE err => d.id = EmptyKey

\* Create failed after the server had created the webhook and told its key.
C10_Witness ==
    /\ op = "Create"
    /\ err
    /\ d.id # EmptyKey
    /\ d.id = calls[1].key
    /\ server[d.id].present

====
